---- MODULE Spec2Model ----
(***************************************************************************)
(* Model of src/app.py, the vehicle-emission heat-map application:         *)
(*   - calculate_efficiency   (app.py 59-63)                               *)
(*   - load_and_process_data  (app.py 27-80)                               *)
(*   - create_heatmap_data    (app.py 82-108), including what pandas.cut,  *)
(*     groupby(...).mean().unstack() and fillna(0) do on its inputs        *)
(*   - create_2d_heatmap / create_contour_plot / create_combined_plot      *)
(*   - show_statistics and main, the Streamlit script that is re-run on    *)
(*     every upload and every widget change.                               *)
(*                                                                         *)
(* Numbers.  The program computes in IEEE doubles; the model computes in   *)
(* exact rationals.  A rational is a pair <<n, d>> with d > 0 in lowest    *)
(* terms; NaN (a missing spreadsheet cell, an empty group's mean) is the   *)
(* pair <<0, 0>>.                                                          *)
(*                                                                         *)
(* Libraries.  pandas.cut, groupby and Plotly are modelled by what they do *)
(* on the calls the source makes: pandas.cut with its defaults (right-     *)
(* closed intervals, precision 3), groupby on two categoricals keeping     *)
(* every category (observed=False, the default before pandas 3), and       *)
(* Plotly's heatmap and contour traces drawing z[r][c] at x[c], y[r].      *)
(***************************************************************************)
EXTENDS Integers, Sequences, FiniteSets, TLC

VARIABLES
    \* --- the Streamlit session (main) ---
    uploaded_file,       \* st.file_uploader: None, or Some(raw rows of the sheet)
    visualization_type,  \* st.radio
    pollutant,           \* st.selectbox
    df,                  \* st.cache_data: the processed frame, None before/failed
    heatmap_data,        \* st.cache_data: the grids, None before/failed
    page,                \* what the last run of main put on the page
    \* --- a direct call of calculate_efficiency ---
    upstream, downstream, efficiency,
    \* --- a direct call of create_heatmap_data(df, bins) ---
    grid_df, grid_bins, grid

vars == <<uploaded_file, visualization_type, pollutant, df, heatmap_data, page,
          upstream, downstream, efficiency, grid_df, grid_bins, grid>>

appVars  == <<uploaded_file, visualization_type, pollutant, df, heatmap_data, page>>
effVars  == <<upstream, downstream, efficiency>>
gridVars == <<grid_df, grid_bins, grid>>

-----------------------------------------------------------------------------
(* Bounds of the model *)

\* longest series handed to calculate_efficiency directly
MaxLen == 2
\* most rows of a frame handed to create_heatmap_data directly
MaxRows == 3
\* bins = 1..MaxBins (and the default) are tried for create_heatmap_data
MaxBins == 2
\* most rows of an uploaded sheet
MaxRawRows == 6

(* Program constants *)

\* df.iloc[::5, :]
Stride == 5
\* def create_heatmap_data(df, bins=20)
DefaultBins == 20
\* pandas.cut(..., precision=3), the default the calls at 85-86 take
BasePrecision == 3

Pollutants == {"CO", "THC", "NOx"}
PollutantOrder == <<"CO", "THC", "NOx">>
VisualizationTypes == {"heatmap", "contour", "combined"}

None == <<>>
Some(x) == <<x>>

-----------------------------------------------------------------------------
(* Rational arithmetic (Python float arithmetic, idealised) *)

RECURSIVE GCD(_, _)
GCD(a, b) == IF b = 0 THEN a ELSE GCD(b, a % b)

Abs(n) == IF n < 0 THEN -n ELSE n

NaN == <<0, 0>>
IsNaN(x) == x[2] = 0

\* n / d; a division by zero, like an operation on NaN, is not a number
Rat(n, d) ==
    IF d = 0 THEN NaN
    ELSE LET s == IF d < 0 THEN -1 ELSE 1
             g == GCD(Abs(n), Abs(d))
         IN  <<(s * n) \div g, (s * d) \div g>>

R(k) == <<k, 1>>

\* the operations reduce by common factors before they multiply, to keep
\* the intermediate integers small
RAdd(x, y) ==
    IF IsNaN(x) \/ IsNaN(y) THEN NaN
    ELSE LET g == GCD(x[2], y[2])
         IN  Rat(x[1] * (y[2] \div g) + y[1] * (x[2] \div g), (x[2] \div g) * y[2])
RNeg(x) == <<-x[1], x[2]>>
RSub(x, y) == RAdd(x, RNeg(y))
RMul(x, y) ==
    IF IsNaN(x) \/ IsNaN(y) THEN NaN
    ELSE LET g == GCD(Abs(x[1]), y[2])
             h == GCD(Abs(y[1]), x[2])
         IN  Rat((x[1] \div g) * (y[1] \div h), (x[2] \div h) * (y[2] \div g))
RDiv(x, y) == IF y[1] < 0 THEN RMul(x, <<-y[2], -y[1]>>) ELSE RMul(x, <<y[2], y[1]>>)
\* a comparison with NaN is false
RLt(x, y) ==
    /\ ~IsNaN(x) /\ ~IsNaN(y)
    /\ LET g == GCD(x[2], y[2]) IN x[1] * (y[2] \div g) < y[1] * (x[2] \div g)
RLe(x, y) ==
    /\ ~IsNaN(x) /\ ~IsNaN(y)
    /\ LET g == GCD(x[2], y[2]) IN x[1] * (y[2] \div g) <= y[1] * (x[2] \div g)
RAbs(x) == <<Abs(x[1]), x[2]>>

RECURSIVE Pow10(_)
Pow10(k) == IF k = 0 THEN 1 ELSE 10 * Pow10(k - 1)

RECURSIVE SumSeq(_)
SumSeq(s) == IF s = <<>> THEN R(0) ELSE RAdd(Head(s), SumSeq(Tail(s)))

\* the subsequence of s at the ascending positions in the set idx
RECURSIVE Pick(_, _)
Pick(s, idx) ==
    IF idx = {} THEN <<>>
    ELSE LET m == CHOOSE i \in idx : \A j \in idx : i <= j
         IN  <<s[m]>> \o Pick(s, idx \ {m})

Range(s) == {s[i] : i \in DOMAIN s}
NotNaN(x) == ~IsNaN(x)

\* Series.min(), Series.max(), Series.mean(): NaN is skipped, and the result
\* is NaN when nothing is left
RMinOf(S) ==
    LET T == {x \in S : NotNaN(x)}
    IN  IF T = {} THEN NaN ELSE CHOOSE x \in T : \A y \in T : RLe(x, y)
RMaxOf(S) ==
    LET T == {x \in S : NotNaN(x)}
    IN  IF T = {} THEN NaN ELSE CHOOSE x \in T : \A y \in T : RLe(y, x)
Mean(s) ==
    LET t == SelectSeq(s, NotNaN)
    IN  IF t = <<>> THEN NaN ELSE RDiv(SumSeq(t), R(Len(t)))

-----------------------------------------------------------------------------
(* calculate_efficiency, app.py 59-63 *)

\* mutants of Mask: the downstream test left out; a zero upstream let through
Mask_UpstreamOnly(u, d) == RLt(R(0), u)
Mask_ZeroUpstreamAllowed(u, d) == RLe(R(0), u) /\ RLe(R(0), d)

\* mask = (upstream > 0) & (downstream >= 0)
Mask(u, d) == RLt(R(0), u) /\ RLe(R(0), d)

\* mutant of Clip: no lower bound
Clip_NoLowerBound(x) == IF RLt(R(100), x) THEN R(100) ELSE x

\* np.clip(x, 0, 100)
Clip(x) == IF RLt(x, R(0)) THEN R(0) ELSE IF RLt(R(100), x) THEN R(100) ELSE x

\* result = zeros; result[mask] = (1 - downstream/upstream) * 100; clip
calculate_efficiency(up, down) ==
    [i \in 1..Len(up) |->
        Clip(IF Mask(up[i], down[i])
             THEN RMul(RSub(R(1), RDiv(down[i], up[i])), R(100))
             ELSE R(0))]

-----------------------------------------------------------------------------
(* pandas.cut(x, bins=nbins), as called at app.py 85-86: right=True,       *)
(* include_lowest=False, precision=3, labels=None.                          *)

\* np.linspace(a, b, n + 1, endpoint=True)
Linspace(a, b, n) ==
    [k \in 1..(n + 1) |-> RAdd(a, RDiv(RMul(R(k - 1), RSub(b, a)), R(n)))]

\* mutant of Widen: the case mn = 0 forgotten
Widen_AlwaysRelative(v) == RMul(Rat(1, 1000), RAbs(v))

\* mn -= 0.001 * abs(mn) if mn != 0 else 0.001
Widen(v) == IF v[1] # 0 THEN RMul(Rat(1, 1000), RAbs(v)) ELSE Rat(1, 1000)

\* mutant of NbinsToBins: the lowest edge left at the minimum
NbinsToBins_LowestEdgeAtMin(x, nbins) ==
    LET mn == RMinOf(Range(x))
        mx == RMaxOf(Range(x))
    IN  IF mn = mx
        THEN Linspace(RSub(mn, Widen(mn)), RAdd(mx, Widen(mx)), nbins)
        ELSE Linspace(mn, mx, nbins)

\* _nbins_to_bins: the nbins + 1 edges.  Equal values: the end points are
\* moved apart by 0.1% before the edges are laid; otherwise the edges are laid
\* on [min, max] and the lowest edge is lowered by 0.1% of the range, so that
\* the right-closed first interval holds the minimum.
NbinsToBins(x, nbins) ==
    LET mn == RMinOf(Range(x))
        mx == RMaxOf(Range(x))
    IN  IF mn = mx
        THEN Linspace(RSub(mn, Widen(mn)), RAdd(mx, Widen(mx)), nbins)
        ELSE LET e   == Linspace(mn, mx, nbins)
                 adj == RMul(RSub(mx, mn), Rat(1, 1000))
             IN  [e EXCEPT ![1] = RSub(e[1], adj)]

\* mutant of BinCode: searchsorted(side="right"), the left-closed intervals
BinCode_SideRight(bins, v) ==
    LET ids == Cardinality({k \in DOMAIN bins : RLe(bins[k], v)})
    IN  IF ids = 0 \/ ids = Len(bins) THEN 0 ELSE ids

\* bins.searchsorted(x, side="left"): the number of edges below v.  0 and
\* len(bins) are outside every interval: the row's category is NaN (0 here);
\* otherwise v lies in (bins[ids], bins[ids + 1]] and ids is its bin, 1..nbins.
BinCode(bins, v) ==
    LET ids == Cardinality({k \in DOMAIN bins : RLt(bins[k], v)})
    IN  IF ids = 0 \/ ids = Len(bins) THEN 0 ELSE ids

\* floor(log10(a)) for 0 < a < 1
RECURSIVE FloorLog10(_)
FloorLog10(a) ==
    IF RLe(R(1), RMul(a, R(10))) THEN -1 ELSE FloorLog10(RMul(a, R(10))) - 1

\* the integer nearest to x, ties to the even one
RoundHalfEven(x) ==
    LET q == x[1] \div x[2]
        r == x[1] % x[2]
    IN  IF 2 * r < x[2] THEN q
        ELSE IF 2 * r > x[2] THEN q + 1
        ELSE IF q % 2 = 0 THEN q ELSE q + 1

\* np.around(x, digits)
Around(x, digits) == Rat(RoundHalfEven(RMul(x, R(Pow10(digits)))), Pow10(digits))

\* _round_frac(x, precision)
RoundFrac(x, precision) ==
    IF x[1] = 0 THEN x
    ELSE IF RLt(RAbs(x), R(1))
         THEN Around(x, precision - FloorLog10(RAbs(x)) - 1)
         ELSE Around(x, precision)

\* _infer_precision(base_precision, bins)
RECURSIVE InferPrecision(_, _)
InferPrecision(bins, p) ==
    IF p >= 20 THEN BasePrecision
    ELSE IF Cardinality({RoundFrac(bins[k], p) : k \in DOMAIN bins}) = Len(bins)
         THEN p
         ELSE InferPrecision(bins, p + 1)

\* _format_labels: the categories are the intervals between the edges rounded
\* to the inferred precision; the rows were binned on the unrounded edges.
FormatLabels(bins) ==
    LET p == InferPrecision(bins, BasePrecision)
    IN  [k \in 1..(Len(bins) - 1) |->
            [left |-> RoundFrac(bins[k], p), right |-> RoundFrac(bins[k + 1], p)]]

\* mutant of Mid: the left edge of the bin in place of its midpoint
Mid_LeftEdge(interval) == interval.left

\* Interval.mid
Mid(interval) == RMul(Rat(1, 2), RAdd(interval.left, interval.right))

\* pd.cut(x, bins=nbins) of a non-empty numeric series: the Categorical's
\* codes and categories.  (s \o <<>> is s, held as an evaluated tuple.)
Cut(x, nbins) ==
    LET bins == NbinsToBins(x, nbins) \o <<>>
    IN  [codes      |-> [i \in DOMAIN x |-> BinCode(bins, x[i])] \o <<>>,
         categories |-> FormatLabels(bins) \o <<>>]

\* mutant of CutRaises: an empty series is cut without complaint
CutRaises_Never(x) == FALSE

\* pd.cut raises ValueError("Cannot cut empty array")
CutRaises(x) == x = <<>>

-----------------------------------------------------------------------------
(* create_heatmap_data, app.py 82-108.  A frame is a sequence of rows       *)
(* [flow, temp, eff], eff the three conversion columns.                     *)

Column(frame, name) == [i \in DOMAIN frame |-> frame[i][name]]
EffColumn(frame, p) == [i \in DOMAIN frame |-> frame[i].eff[p]]

\* df.groupby([flow_bins, temp_bins]): the rows of group (i, j); rows whose
\* category is NaN belong to no group
GroupRows(fcodes, tcodes, i, j) ==
    {r \in DOMAIN fcodes : fcodes[r] = i /\ tcodes[r] = j}

\* grouped.fillna(0)
FillNa(x) == IF IsNaN(x) THEN R(0) ELSE x

\* [...].mean().unstack(): rows are the flow categories, columns the
\* temperature categories, every category present (observed=False)
Grouped(frame, p, fcut, tcut) ==
    [i \in DOMAIN fcut.categories |->
        [j \in DOMAIN tcut.categories |->
            Mean(Pick(EffColumn(frame, p),
                      GroupRows(fcut.codes, tcut.codes, i, j)))]]

HeatmapRaises(frame) == CutRaises(Column(frame, "flow"))

\* lines 85-86: the locals flow_bins and temp_bins
CutAxes(frame, nbins) ==
    [flow_bins |-> Cut(Column(frame, "flow"), nbins),
     temp_bins |-> Cut(Column(frame, "temp"), nbins)]

\* lines 89-108
HeatmapOf(frame, axes) ==
    LET fcut == axes.flow_bins
        tcut == axes.temp_bins
    IN  [p \in Pollutants |->
            LET grouped == Grouped(frame, p, fcut, tcut)
            IN  [flow_centers |-> [i \in DOMAIN fcut.categories |-> Mid(fcut.categories[i])],
                 temp_centers |-> [j \in DOMAIN tcut.categories |-> Mid(tcut.categories[j])],
                 efficiency_matrix |->
                    [i \in DOMAIN grouped |->
                        [j \in DOMAIN grouped[i] |-> FillNa(grouped[i][j])]]]]

create_heatmap_data(frame, nbins) == HeatmapOf(frame, CutAxes(frame, nbins))

-----------------------------------------------------------------------------
(* load_and_process_data, app.py 27-80.  A sheet is a sequence of raw rows  *)
(* [flow, temp, up, down], up and down the raw concentrations of the three *)
(* pollutants; a missing cell is NaN.  (The time and Lambda columns are     *)
(* read and never used.)                                                    *)

\* df = df.fillna(0)
FillRow(row) ==
    [flow |-> FillNa(row.flow), temp |-> FillNa(row.temp),
     up   |-> [p \in Pollutants |-> FillNa(row.up[p])],
     down |-> [p \in Pollutants |-> FillNa(row.down[p])]]

\* Series.clip(lower=0)
ClipLower(x) == IF RLt(x, R(0)) THEN R(0) ELSE x

\* for col in [the six concentration columns]: df[col] = df[col].clip(lower=0)
ClipRow(row) ==
    [row EXCEPT !.up   = [p \in Pollutants |-> ClipLower(row.up[p])],
                !.down = [p \in Pollutants |-> ClipLower(row.down[p])]]

\* df.iloc[::5, :]: rows 0, 5, 10, ... (here 1, 6, 11, ...)
Decimate(rows) ==
    [i \in 1..((Len(rows) + Stride - 1) \div Stride) |-> rows[Stride * (i - 1) + 1]]

\* lines 32-67: the frame with its three conversion columns
ProcessRows(sheet) ==
    LET cleaned == Decimate([i \in DOMAIN sheet |-> ClipRow(FillRow(sheet[i]))])
        eff == [p \in Pollutants |->
                  calculate_efficiency([i \in DOMAIN cleaned |-> cleaned[i].up[p]],
                                       [i \in DOMAIN cleaned |-> cleaned[i].down[p]])]
    IN  [i \in DOMAIN cleaned |->
            [flow |-> cleaned[i].flow, temp |-> cleaned[i].temp,
             up |-> cleaned[i].up, down |-> cleaned[i].down,
             eff |-> [p \in Pollutants |-> eff[p][i]]]]

\* the call raises when create_heatmap_data does (line 72), with the status
\* text of step 6 still on the page; otherwise it returns (df, heatmap_data)
\* and has cleared its progress bar
load_and_process_data(sheet) ==
    LET frame == ProcessRows(sheet)
    IN  IF HeatmapRaises(frame)
        THEN [raised |-> TRUE, df |-> None, heatmap_data |-> None, progress |-> 6]
        ELSE [raised |-> FALSE, df |-> Some(frame),
              heatmap_data |-> Some(create_heatmap_data(frame, DefaultBins)),
              progress |-> 0]

-----------------------------------------------------------------------------
(* The figures, app.py 110-234.  A figure is the sequence of its traces.   *)

Trace(kind, data) ==
    [type |-> kind, z |-> data.efficiency_matrix,
     x |-> data.flow_centers, y |-> data.temp_centers]

create_2d_heatmap(hd, p) == <<Trace("heatmap", hd[p])>>
create_contour_plot(hd, p) == <<Trace("contour", hd[p])>>
create_combined_plot(hd, p) == <<Trace("heatmap", hd[p]), Trace("contour", hd[p])>>

\* Plotly's go.Heatmap and go.Contour draw z[r][c] at x = x[c], y = y[r]:
\* the value drawn at x = x[c], y = y[r]
Drawn(trace, c, r) == trace.z[r][c]

\* show_statistics, app.py 237-255: the row count, the three means, and the
\* mean / min / max rows of describe()
show_statistics(frame) ==
    [count |-> Len(frame),
     mean  |-> [p \in Pollutants |-> Mean(EffColumn(frame, p))],
     min   |-> [p \in Pollutants |-> RMinOf(Range(EffColumn(frame, p)))],
     max   |-> [p \in Pollutants |-> RMaxOf(Range(EffColumn(frame, p)))]]

-----------------------------------------------------------------------------
(* main, app.py 258-343: one run of the script, given the uploader's file, *)
(* the widgets' values and what load_and_process_data gave.                *)

BlankPage ==
    [info |-> FALSE, error |-> FALSE, progress |-> 0, preview |-> None,
     statistics |-> None, fig |-> <<>>, small_figs |-> <<>>, download |-> FALSE]

\* line 343: no file
InfoPage == [BlankPage EXCEPT !.info = TRUE]

\* lines 339-341: the except branch
ErrorPage(loaded) == [BlankPage EXCEPT !.error = TRUE, !.progress = loaded.progress]

\* lines 300-305
MainFigure(hd, v, p) ==
    IF v = "heatmap" THEN create_2d_heatmap(hd, p)
    ELSE IF v = "contour" THEN create_contour_plot(hd, p)
    ELSE create_combined_plot(hd, p)

\* lines 277-328
ResultPage(frame, hd, v, p) ==
    [BlankPage EXCEPT
        !.preview = Some(Len(frame)),
        !.statistics = Some(show_statistics(frame)),
        !.fig = MainFigure(hd, v, p),
        !.small_figs = [k \in DOMAIN PollutantOrder |->
                           create_2d_heatmap(hd, PollutantOrder[k])[1]],
        !.download = TRUE]

main(loaded, v, p) ==
    IF loaded.raised THEN ErrorPage(loaded)
    ELSE ResultPage(loaded.df[1], loaded.heatmap_data[1], v, p)

-----------------------------------------------------------------------------
(* Inputs *)

\* series for calculate_efficiency: any sign, zero included
UpVals == {-2, 0, 3, 4}
DownVals == {-1, 0, 1, 4, 6}
EffPairs == {<<R(u), R(d)>> : u \in UpVals, d \in DownVals}
\* upstream = [100, 50, 0], downstream = [20, 60, 10]
Scenario1 == << <<R(100), R(20)>>, <<R(50), R(60)>>, <<R(0), R(10)>> >>
EffInputs == UNION {[1..n -> EffPairs] : n \in 0..MaxLen} \cup {Scenario1}

PollutantIndex(p) == CHOOSE k \in DOMAIN PollutantOrder : PollutantOrder[k] = p

\* frames for create_heatmap_data: any flows and temperatures; the three
\* conversion columns of a row hold three different levels, and each column
\* cycles through the levels down the frame
GridFlows == {R(0), R(4), R(8)}
GridTemps == {R(0), R(300)}
EffLevels == <<R(0), R(50), R(100)>>
EffProfile(k) ==
    [p \in Pollutants |-> EffLevels[((k + PollutantIndex(p)) % Len(EffLevels)) + 1]]
GridFrame(n, ft) ==
    [i \in 1..n |-> [flow |-> ft[i][1], temp |-> ft[i][2], eff |-> EffProfile(i)]]
\* flow = [1,1,9,9], temp = [1,9,1,9], efficiency = [10,90,30,70]
Scenario2 ==
    << [flow |-> R(1), temp |-> R(1), eff |-> [p \in Pollutants |-> R(10)]],
       [flow |-> R(1), temp |-> R(9), eff |-> [p \in Pollutants |-> R(90)]],
       [flow |-> R(9), temp |-> R(1), eff |-> [p \in Pollutants |-> R(30)]],
       [flow |-> R(9), temp |-> R(9), eff |-> [p \in Pollutants |-> R(70)]] >>
GridFrames ==
    UNION {{GridFrame(n, ft) : ft \in [1..n -> GridFlows \X GridTemps]} : n \in 0..MaxRows}
        \cup {Scenario2}
GridBinChoices == (1..MaxBins) \cup {DefaultBins}

\* uploaded sheets: missing cells, negative readings, zero upstream after
\* clipping, downstream above upstream
RawFlows == {NaN, R(4), R(8)}
RawTemps == {NaN, R(300)}
ConcPairs ==
    << [up |-> R(-2), down |-> R(3)], [up |-> R(4), down |-> NaN],
       [up |-> R(4), down |-> R(1)], [up |-> R(4), down |-> R(6)],
       [up |-> NaN, down |-> R(-1)] >>
ConcProfile(k) ==
    [p \in Pollutants |-> ConcPairs[((k + PollutantIndex(p)) % Len(ConcPairs)) + 1]]
RawRows ==
    {[flow |-> f, temp |-> t,
      up   |-> [p \in Pollutants |-> ConcProfile(k)[p].up],
      down |-> [p \in Pollutants |-> ConcProfile(k)[p].down]] :
        f \in RawFlows, t \in RawTemps, k \in DOMAIN ConcPairs}
\* the rows the decimation drops are all this row, which would change every
\* result if it were kept
FillerRow ==
    [flow |-> R(6), temp |-> R(150),
     up |-> [p \in Pollutants |-> R(8)], down |-> [p \in Pollutants |-> R(6)]]
Sheet(n, kept) ==
    [i \in 1..n |-> IF (i - 1) % Stride = 0 THEN kept[((i - 1) \div Stride) + 1]
                    ELSE FillerRow]
Sheets ==
    UNION {{Sheet(n, kept) : kept \in [1..((n + Stride - 1) \div Stride) -> RawRows]} :
              n \in 0..MaxRawRows}

-----------------------------------------------------------------------------
(* The Streamlit session *)

IdleApp ==
    /\ uploaded_file = None
    /\ visualization_type = "heatmap"
    /\ pollutant = "CO"
    /\ df = None
    /\ heatmap_data = None
    /\ page = InfoPage

IdleEff == upstream = <<>> /\ downstream = <<>> /\ efficiency = None

IdleGrid == grid_df = <<>> /\ grid_bins = DefaultBins /\ grid = None

Init == IdleApp /\ IdleEff /\ IdleGrid

\* a file is uploaded: the script runs with the widgets at their defaults
UploadFile(f) ==
    /\ uploaded_file = None
    /\ LET loaded == load_and_process_data(f)
       IN  /\ uploaded_file' = Some(f)
           /\ df' = loaded.df
           /\ heatmap_data' = loaded.heatmap_data
           /\ page' = main(loaded, visualization_type, pollutant)
    /\ UNCHANGED <<visualization_type, pollutant>>
    /\ UNCHANGED <<effVars, gridVars>>

\* what load_and_process_data returns on a re-run: the cached (df, heatmap_data)
Cached == [raised |-> FALSE, df |-> df, heatmap_data |-> heatmap_data, progress |-> 0]

\* the radio is on the page only after a successful load
SelectVisualization(v) ==
    /\ page.fig # <<>>
    /\ v # visualization_type
    /\ visualization_type' = v
    /\ page' = main(Cached, v, pollutant)
    /\ UNCHANGED <<uploaded_file, pollutant, df, heatmap_data>>
    /\ UNCHANGED <<effVars, gridVars>>

SelectPollutant(p) ==
    /\ page.fig # <<>>
    /\ p # pollutant
    /\ pollutant' = p
    /\ page' = main(Cached, visualization_type, p)
    /\ UNCHANGED <<uploaded_file, visualization_type, df, heatmap_data>>
    /\ UNCHANGED <<effVars, gridVars>>

\* the file is removed: line 343, and the widgets are gone from the page
RemoveFile ==
    /\ uploaded_file # None
    /\ uploaded_file' = None
    /\ visualization_type' = "heatmap"
    /\ pollutant' = "CO"
    /\ df' = None
    /\ heatmap_data' = None
    /\ page' = InfoPage
    /\ UNCHANGED <<effVars, gridVars>>

Next ==
    \/ \E f \in Sheets : UploadFile(f)
    \/ \E v \in VisualizationTypes : SelectVisualization(v)
    \/ \E p \in Pollutants : SelectPollutant(p)
    \/ RemoveFile

Spec == Init /\ [][Next]_vars

-----------------------------------------------------------------------------
(* A direct call of calculate_efficiency *)

InitEff ==
    /\ IdleApp /\ IdleGrid
    /\ \E s \in EffInputs :
          /\ upstream = [i \in DOMAIN s |-> s[i][1]]
          /\ downstream = [i \in DOMAIN s |-> s[i][2]]
    /\ efficiency = None

CallCalculateEfficiency ==
    /\ efficiency = None
    /\ efficiency' = Some(calculate_efficiency(upstream, downstream))
    /\ UNCHANGED <<upstream, downstream, appVars, gridVars>>

NextEff == CallCalculateEfficiency

SpecEff == InitEff /\ [][NextEff]_vars

-----------------------------------------------------------------------------
(* A direct call of create_heatmap_data(df, bins) *)

InitGrid ==
    /\ IdleApp /\ IdleEff
    /\ grid_df \in GridFrames
    /\ grid_bins \in GridBinChoices
    /\ grid = None

\* the call returns heatmap_data or raises; the record keeps the locals
\* flow_bins and temp_bins of the call beside what it returned
CallCreateHeatmapData ==
    /\ grid = None
    /\ grid' = Some(IF HeatmapRaises(grid_df)
                    THEN [raised |-> TRUE, axes |-> None, data |-> None]
                    ELSE [raised |-> FALSE,
                          axes |-> Some(CutAxes(grid_df, grid_bins)),
                          data |-> Some(create_heatmap_data(grid_df, grid_bins))])
    /\ UNCHANGED <<grid_df, grid_bins, appVars, effVars>>

NextGrid == CallCreateHeatmapData

SpecGrid == InitGrid /\ [][NextGrid]_vars

-----------------------------------------------------------------------------
(* Properties of calculate_efficiency, checked under SpecEff *)

EffDone == efficiency # None
Eff == efficiency[1]

\* clamp((u - d) / u * 100, 0, 100)
ClampedRatio(u, d) ==
    LET q == RMul(RDiv(RSub(u, d), u), R(100))
    IN  IF RLt(q, R(0)) THEN R(0) ELSE IF RLt(R(100), q) THEN R(100) ELSE q

\* C1: every element calculate_efficiency returns is a number e with
\* 0 <= e <= 100, one per input pair, whatever the signs of the inputs and
\* also when upstream is 0.
C1_EfficiencyInRange ==
    EffDone =>
        /\ Len(Eff) = Len(upstream)
        /\ \A i \in DOMAIN Eff :
              /\ NotNaN(Eff[i])
              /\ RLe(R(0), Eff[i])
              /\ RLe(Eff[i], R(100))

\* the call was made on a series with a zero upstream beside a negative
\* downstream, and with a downstream above its positive upstream
C1_Witness ==
    /\ EffDone
    /\ \E i \in DOMAIN upstream : upstream[i] = R(0) /\ RLt(downstream[i], R(0))
    /\ \E i \in DOMAIN upstream :
          RLt(R(0), upstream[i]) /\ RLt(upstream[i], downstream[i])

-----------------------------------------------------------------------------
(* Properties of create_heatmap_data, checked under SpecGrid *)

GridDone == grid # None
GridOk == GridDone /\ ~grid[1].raised
GridData == grid[1].data[1]
Bins == 1..grid_bins
FlowCol == Column(grid_df, "flow")
TempCol == Column(grid_df, "temp")
FlowCodes == grid[1].axes[1].flow_bins.codes
TempCodes == grid[1].axes[1].temp_bins.codes
AxisMin(col) == RMinOf(Range(col))
AxisMax(col) == RMaxOf(Range(col))
Degenerate(col) == col # <<>> /\ AxisMin(col) = AxisMax(col)
Spread(col) == col # <<>> /\ AxisMin(col) # AxisMax(col)
\* w = (max - min) / K
Width(col) == RDiv(RSub(AxisMax(col), AxisMin(col)), R(grid_bins))
\* min + k * w
Edge(col, k) == RAdd(AxisMin(col), RMul(R(k), Width(col)))

\* f[1] + ... + f[n]
RECURSIVE SumTo(_, _)
SumTo(f, n) == IF n = 0 THEN 0 ELSE f[n] + SumTo(f, n - 1)

\* the sum of the sample counts of all cells
SumCounts(fc, tc) ==
    SumTo([i \in Bins |->
              SumTo([j \in Bins |-> Cardinality(GroupRows(fc, tc, i, j))], grid_bins)],
          grid_bins)

\* C4: every row is in exactly one (flow bin, temperature bin) cell, the
\* rows at an axis minimum or maximum too: every row is in a cell and the
\* cells' sample counts sum to the number of rows, so no row is dropped and
\* none is counted twice.
C4_EveryRowInOneCell ==
    GridOk =>
        LET fc == FlowCodes
            tc == TempCodes
        IN  /\ \A r \in DOMAIN grid_df :
                  \E c \in Bins \X Bins : r \in GroupRows(fc, tc, c[1], c[2])
            /\ SumCounts(fc, tc) = Len(grid_df)

\* a grid of two bins or more was made of rows that differ in flow and in
\* temperature: some row is at a minimum, some at a maximum
C4_Witness ==
    /\ GridOk
    /\ grid_bins >= 2
    /\ Spread(FlowCol)
    /\ Spread(TempCol)

\* what the returned grid holds about the content of cell (i, j)
CellContent(p, i, j) == [aggregate |-> GridData[p].efficiency_matrix[i][j]]
CellEmpty(fc, tc, i, j) == GroupRows(fc, tc, i, j) = {}

\* C5: a cell without samples has aggregate 0, and what the grid holds about
\* an empty cell differs from what it holds about a populated cell, also one
\* whose mean is 0.
C5_EmptyCellDistinguishable ==
    GridOk =>
        LET fc == FlowCodes
            tc == TempCodes
            empty == {c \in Bins \X Bins : CellEmpty(fc, tc, c[1], c[2])}
            populated == (Bins \X Bins) \ empty
        IN  \A p \in Pollutants :
                /\ \A c \in empty : GridData[p].efficiency_matrix[c[1]][c[2]] = R(0)
                /\ {CellContent(p, c[1], c[2]) : c \in empty}
                       \cap {CellContent(p, c[1], c[2]) : c \in populated} = {}

\* the bin of v among K intervals [min + (k-1)w, min + kw), the last one
\* holding max too
HalfOpenBin(col, v) ==
    CHOOSE k \in Bins :
        \/ /\ RLe(Edge(col, k - 1), v)
           /\ RLt(v, Edge(col, k))
        \/ k = grid_bins /\ v = AxisMax(col)

\* the bin of v among K intervals (min + (k-1)w, min + kw], the first one
\* holding min too
RightClosedBin(col, v) ==
    CHOOSE k \in Bins :
        \/ /\ RLt(Edge(col, k - 1), v)
           /\ RLe(v, Edge(col, k))
        \/ k = 1 /\ v = AxisMin(col)

IsGrid(data) ==
    /\ Len(data.flow_centers) = grid_bins
    /\ Len(data.temp_centers) = grid_bins
    /\ Len(data.efficiency_matrix) = grid_bins
    /\ \A i \in Bins : Len(data.efficiency_matrix[i]) = grid_bins

\* C6 as stated: each axis is split into K intervals [min + kw, min + (k+1)w)
\* of width w = (max - min) / K, the last one holding max; a row is in the
\* interval that holds its value; the grid is K x K.
C6_HalfOpenIntervals ==
    GridOk =>
        /\ \A p \in Pollutants : IsGrid(GridData[p])
        /\ Spread(FlowCol) =>
              \A r \in DOMAIN grid_df : FlowCodes[r] = HalfOpenBin(FlowCol, FlowCol[r])
        /\ Spread(TempCol) =>
              \A r \in DOMAIN grid_df : TempCodes[r] = HalfOpenBin(TempCol, TempCol[r])

\* C6 amended: on an axis with max > min the K intervals are
\* (min + kw, min + (k+1)w], the first one holding min too; a row on an
\* interior edge is in the bin that ends at that edge; the grid is K x K.
C6_RightClosedIntervals ==
    GridOk =>
        /\ \A p \in Pollutants : IsGrid(GridData[p])
        /\ Spread(FlowCol) =>
              \A r \in DOMAIN grid_df : FlowCodes[r] = RightClosedBin(FlowCol, FlowCol[r])
        /\ Spread(TempCol) =>
              \A r \in DOMAIN grid_df : TempCodes[r] = RightClosedBin(TempCol, TempCol[r])

\* a grid was made of rows one of which has its flow on an interior edge
C6_Witness ==
    /\ GridOk
    /\ Spread(FlowCol)
    /\ \E r \in DOMAIN grid_df : \E k \in 1..(grid_bins - 1) :
          FlowCol[r] = Edge(FlowCol, k)

\* min + (k - 1/2) * (max - min) / K, the midpoint of the k-th equal-width bin
NominalCenter(col, k) == RAdd(AxisMin(col), RMul(Rat(2 * k - 1, 2), Width(col)))

\* C7 as stated: every center is the midpoint of its equal-width bin of the
\* observed range.
C7_NominalCenters ==
    GridOk =>
        \A p \in Pollutants :
            /\ Spread(FlowCol) =>
                  \A k \in Bins : GridData[p].flow_centers[k] = NominalCenter(FlowCol, k)
            /\ Spread(TempCol) =>
                  \A k \in Bins : GridData[p].temp_centers[k] = NominalCenter(TempCol, k)

\* the midpoint of the k-th interval as pandas.cut lays it: the lowest edge
\* is 0.1% of the range below min
LoweredCenter(col, k) ==
    IF k = 1
    THEN RSub(NominalCenter(col, k), RMul(Rat(1, 2000), RSub(AxisMax(col), AxisMin(col))))
    ELSE NominalCenter(col, k)

Near(x, y, tol) == RLe(RAbs(RSub(x, y)), tol)

\* C7 amended: every center is the midpoint of its interval with the edges
\* rounded to the label precision (three decimals or more): the nominal
\* midpoint for every bin but the lowest, whose center is 0.05% of the range
\* below it, each within 0.0005.  flow = [1,1,9,9], temp = [1,9,1,9],
\* efficiency = [10,90,30,70], bins = 2 gives one sample per cell, the
\* aggregates 10, 90, 30, 70 and the centers 2.996 and 7 on both axes.
C7_LoweredFirstCenter ==
    GridOk =>
        \A p \in Pollutants :
            /\ Spread(FlowCol) =>
                  \A k \in Bins :
                      Near(GridData[p].flow_centers[k], LoweredCenter(FlowCol, k), Rat(1, 2000))
            /\ Spread(TempCol) =>
                  \A k \in Bins :
                      Near(GridData[p].temp_centers[k], LoweredCenter(TempCol, k), Rat(1, 2000))
            /\ (grid_df = Scenario2 /\ grid_bins = 2) =>
                  /\ GridData[p].flow_centers = <<Rat(2996, 1000), R(7)>>
                  /\ GridData[p].temp_centers = <<Rat(2996, 1000), R(7)>>
                  /\ GridData[p].efficiency_matrix = << <<R(10), R(90)>>, <<R(30), R(70)>> >>
                  /\ \A c \in Bins \X Bins :
                        Cardinality(GroupRows(FlowCodes, TempCodes, c[1], c[2])) = 1

\* the grid of the example was made
C7_Witness == GridOk /\ grid_df = Scenario2 /\ grid_bins = 2

\* C8 as stated: an axis whose values are all equal gets a single bin: one
\* center, equal to the value, and every row in it; the call does not fail.
C8_SingleBinFallback ==
    GridDone =>
        /\ Degenerate(FlowCol) =>
              /\ GridOk
              /\ \A p \in Pollutants : GridData[p].flow_centers = <<AxisMin(FlowCol)>>
        /\ Degenerate(TempCol) =>
              /\ GridOk
              /\ \A p \in Pollutants : GridData[p].temp_centers = <<AxisMin(TempCol)>>

\* on an axis of equal values v: K centers, increasing, all within 0.1% of v
\* (0.001 when v = 0) and the rounding of the labels; all rows in one bin
DegenerateAxisOk(col, codes, centers) ==
    LET v == AxisMin(col)
    IN  /\ Len(centers) = grid_bins
        /\ \A k \in Bins : Near(centers[k], v, RAdd(Widen(v), Rat(1, 2000)))
        /\ \A k \in 1..(grid_bins - 1) : RLt(centers[k], centers[k + 1])
        /\ \E k \in Bins : \A r \in DOMAIN col : codes[r] = k

\* C8 amended: when all values of an axis equal v the call does not fail;
\* the axis keeps its K bins, laid over [v - 0.001|v|, v + 0.001|v|]
\* (v +- 0.001 when v = 0), so it has K centers, all next to v, and every row
\* falls in one and the same bin.
C8_DegenerateAxisKeepsBins ==
    GridDone =>
        /\ Degenerate(FlowCol) =>
              /\ GridOk
              /\ \A p \in Pollutants :
                    DegenerateAxisOk(FlowCol, FlowCodes, GridData[p].flow_centers)
        /\ Degenerate(TempCol) =>
              /\ GridOk
              /\ \A p \in Pollutants :
                    DegenerateAxisOk(TempCol, TempCodes, GridData[p].temp_centers)

\* a grid of two bins or more was made of two or more rows of one flow
C8_Witness ==
    /\ GridOk
    /\ grid_bins >= 2
    /\ Len(grid_df) >= 2
    /\ Degenerate(FlowCol)
    /\ Spread(TempCol)

-----------------------------------------------------------------------------
(* Properties of the session, checked under Spec *)

Uploaded == uploaded_file # None
Frame == df[1]

\* C3: a sample with upstream 0 has efficiency 0 whatever its downstream,
\* no error is raised, and a pollutant whose upstream values are all 0 has
\* mean, min and max efficiency 0.
C3_ZeroUpstream ==
    /\ (Uploaded /\ uploaded_file[1] # <<>>) => (~page.error /\ df # None)
    /\ df # None =>
          /\ page.statistics # None
          /\ \A p \in Pollutants :
                /\ \A i \in DOMAIN Frame :
                      Frame[i].up[p] = R(0) => Frame[i].eff[p] = R(0)
                /\ (\A i \in DOMAIN Frame : Frame[i].up[p] = R(0)) =>
                      /\ page.statistics[1].mean[p] = R(0)
                      /\ page.statistics[1].min[p] = R(0)
                      /\ page.statistics[1].max[p] = R(0)

\* a sheet was processed in which one pollutant has upstream 0 in every kept
\* row, with different downstream values
C3_Witness ==
    /\ df # None
    /\ \E p \in Pollutants :
          /\ \A i \in DOMAIN Frame : Frame[i].up[p] = R(0)
          /\ \E i, j \in DOMAIN Frame : Frame[i].down[p] # Frame[j].down[p]

NothingProduced ==
    /\ df = None
    /\ heatmap_data = None
    /\ page.preview = None
    /\ page.statistics = None
    /\ page.fig = <<>>
    /\ page.small_figs = <<>>
    /\ ~page.download

EverythingProduced ==
    /\ df # None
    /\ heatmap_data # None
    /\ page.preview # None
    /\ page.statistics # None
    /\ page.fig # <<>>
    /\ Len(page.small_figs) = Cardinality(Pollutants)
    /\ page.download

\* C9: a sheet without rows ends in an error shown to the user and nothing
\* else: no grid, no statistics, no chart; a run produces all artifacts or
\* none.
C9_EmptySheetFails ==
    /\ (Uploaded /\ Decimate(uploaded_file[1]) = <<>>) =>
          (page.error /\ NothingProduced)
    /\ Uploaded => (IF page.error THEN NothingProduced ELSE EverythingProduced)

\* a sheet without rows was uploaded
C9_Witness == Uploaded /\ uploaded_file[1] = <<>> /\ page.error

\* the traces on the page, each with the pollutant it shows
ShownTraces ==
    {<<page.fig[k], pollutant>> : k \in DOMAIN page.fig}
        \cup {<<page.small_figs[k], PollutantOrder[k]>> : k \in DOMAIN page.small_figs}

\* C10: in every chart the value drawn at x = flow_centers[i],
\* y = temp_centers[j] is the aggregate of flow bin i and temperature bin j.
C10_DrawnAtItsCell ==
    heatmap_data # None =>
        \A t \in ShownTraces :
            LET data == heatmap_data[1][t[2]]
            IN  \A i \in DOMAIN data.flow_centers : \A j \in DOMAIN data.temp_centers :
                    /\ t[1].x[i] = data.flow_centers[i]
                    /\ t[1].y[j] = data.temp_centers[j]
                    /\ Drawn(t[1], i, j) = data.efficiency_matrix[i][j]

====
